---------------------------- MODULE Spec2Model ----------------------------
(***************************************************************************)
(* A model of burp_git_bridge.py: the LogEntry fingerprint, the directory  *)
(* tree codec of GitLog (write_entry / entries), the git subprocess        *)
(* wrapper, and the Log / GuiLog operations built on them.                 *)
(*                                                                         *)
(* Python values are tagged records, a LogEntry is its __dict__ (a         *)
(* function from attribute names to values), byte strings are TLA+         *)
(* strings, and the working copy is a flat map from paths (tuples of       *)
(* names, relative to repo_path) to file contents plus a set of            *)
(* directories.  md5 is idealised as a collision-free digest of the byte   *)
(* stream it is fed.                                                       *)
(***************************************************************************)
EXTENDS Integers, Sequences, FiniteSets, TLC

VARIABLES
    c_pc,       \* codec run: "new", "built", "raised", "written", "read"
    c_kw,       \* codec run: the keyword arguments, in __dict__ iteration order
    c_entry,    \* codec run: the LogEntry built from c_kw
    c_w,        \* codec run: the working copy the entry was written to
    c_out,      \* codec run: what entries() yielded from c_w
    w,          \* the active working copy: files, dirs, git index, git HEAD
    log,        \* GuiLog._log, the in-memory list of LogEntry
    op,         \* the last handler run: its name, subprocess calls and outcome
    faults,     \* number of environment failures injected so far
    remote,     \* the head of origin/master: a map from paths to contents
    git_log,    \* GitLog: project_repo_rels, project_name, repo_uri, repo_path
    rel_file,   \* the file repo_path_relations.txt: whether it exists, its text
    base,       \* the directories under base_path, each with the URI it was cloned from
    burp_project, \* the project name in the title of the Burp window
    known_hosts, \* the lines of ~/.ssh/known_hosts
    lock,       \* GuiLog._lock: the thread that holds it, or "none"
    stack       \* for each thread, its calls of GuiLog methods in progress

vars == <<c_pc, c_kw, c_entry, c_w, c_out, w, log, op, faults, remote,
          git_log, rel_file, base, burp_project, known_hosts, lock, stack>>

codec_vars == <<c_pc, c_kw, c_entry, c_w, c_out>>
store_vars == <<w, log, op, faults>>
sync_vars == <<remote>>
bind_vars == <<git_log, rel_file, base, burp_project, known_hosts>>
gui_vars == <<lock, stack>>

(***************************************************************************)
(* Bounds of the model.                                                    *)
(***************************************************************************)
MaxListLen == 3     \* longest "messages" list of a codec run
MaxMsgs == 1        \* longest "messages" list a scan issue of the store carries
MaxLog == 2         \* GuiLog._log is not appended to beyond this length
MaxFaults == 1      \* environment failures of git injected per behaviour

(***************************************************************************)
(* Python values.                                                          *)
(***************************************************************************)
PyNone == [t |-> "none"]
PyStr(s) == [t |-> "str", s |-> s]
PyInt(n) == [t |-> "int", n |-> n]
PyList(l) == [t |-> "list", l |-> l]
PyEntry(e) == [t |-> "entry", e |-> e]

\* bool(v): None, "", 0 and [] are false
Truthy(v) ==
    CASE v.t = "none" -> FALSE
      [] v.t = "str" -> v.s # ""
      [] v.t = "int" -> v.n # 0
      [] v.t = "list" -> v.l # <<>>
      [] v.t = "entry" -> TRUE

\* getattr(v, "__getitem__", False): strings, byte arrays and lists have it
HasGetItem(v) == v.t \in {"str", "list"}

\* str(v) of a value without __getitem__
str(v) ==
    CASE v.t = "none" -> "None"
      [] v.t = "int" -> ToString(v.n)

Min(a, b) == IF a < b THEN a ELSE b

(***************************************************************************)
(* LogEntry.__init__: the fingerprint.                                     *)
(***************************************************************************)
SliceLen == 2048

\* v[:2048]
Slice(s) == SubSeq(s, 1, Min(Len(s), SliceLen))

\* the test of line 98: which items of __dict__ are fed to the digest
md5_fed(item) == Truthy(item.v) /\ item.k # "messages"

\* md5.update(k); md5.update(v[:2048]) of one item that is fed
md5_update(item) ==
    item.k \o Slice(IF HasGetItem(item.v) THEN item.v.s ELSE str(item.v))

\* the bytes fed to the digest, iterating the items in the sequence's order
RECURSIVE md5_stream(_)
md5_stream(kw) ==
    IF kw = <<>> THEN ""
    ELSE (IF md5_fed(Head(kw)) THEN md5_update(Head(kw)) ELSE "")
         \o md5_stream(Tail(kw))

\* md5.hexdigest(): an injective image of the stream, never empty
hexdigest(stream) == "md5:" \o stream

\* md5.update(v[:2048]) of a list is a TypeError: __init__ raises
LogEntry_raises(kw) ==
    \E i \in 1..Len(kw) : md5_fed(kw[i]) /\ kw[i].v.t = "list"

\* self.__dict__ = kwargs
AsDict(kw) ==
    [k \in {kw[i].k : i \in 1..Len(kw)} |->
        kw[CHOOSE i \in 1..Len(kw) : kw[i].k = k].v]

\* the __dict__ of LogEntry(**kw) after __init__; self.md5 is set last
LogEntry(kw) == ("md5" :> PyStr(hexdigest(md5_stream(kw)))) @@ AsDict(kw)


(***************************************************************************)
(* The working copy: files and directories under repo_path, and git's      *)
(* index and HEAD as maps from tracked paths to contents.                  *)
(***************************************************************************)
NoFiles == [p \in {} |-> ""]

\* a fresh clone of an empty repository: only the .git directory; tracking is
\* origin/master as of the last clone, pull or push
EmptyWorld == [files |-> NoFiles, dirs |-> {<<".git">>},
               index |-> NoFiles, head |-> NoFiles, tracking |-> NoFiles]

Exists(wc, p) == p \in wc.dirs \/ p \in DOMAIN wc.files
IsDir(wc, p) == p \in wc.dirs
Mkdir(wc, p) == [wc EXCEPT !.dirs = @ \cup {p}]
\* open(path, "wb").write(data): creates or truncates the file
WriteFile(wc, p, data) == [wc EXCEPT !.files = (p :> data) @@ @]
\* os.listdir(p): the names in directory p (in no particular order)
ListDir(wc, p) ==
    {q[Len(p) + 1] : q \in {r \in wc.dirs \cup DOMAIN wc.files :
                               Len(r) = Len(p) + 1 /\ SubSeq(r, 1, Len(p)) = p}}

\* self.base_path
BasePath == "~/.burp-git-bridge/"
RepoPath == "~/.burp-git-bridge/repo"

RECURSIVE PathStr(_)
\* os.path.join(self.repo_path, ...)
PathStr(p) == IF p = <<>> THEN RepoPath
              ELSE PathStr(SubSeq(p, 1, Len(p) - 1)) \o "/" \o p[Len(p)]

(***************************************************************************)
(* git, the external executable: what a command does to the working copy   *)
(* and what its process returns.  envfail is an environment failure (a     *)
(* stale index.lock, no identity configured, a full disk).                 *)
(***************************************************************************)
UserName == "alice"

\* git commit: exit status 1 and "nothing to commit" when the index equals HEAD
git_commit(wc) ==
    IF wc.index = wc.head
    THEN [w |-> wc, rc |-> 1, out |-> "nothing to commit", err |-> ""]
    ELSE [w |-> [wc EXCEPT !.head = wc.index], rc |-> 0, out |-> "committed", err |-> ""]

\* git add <file>: the file's current content enters the index
git_add(wc, p) ==
    [w |-> [wc EXCEPT !.index = (p :> wc.files[p]) @@ @],
     rc |-> 0, out |-> "", err |-> ""]

\* the map t without the paths of P
Without(t, P) == [p \in DOMAIN t \ P |-> t[p]]
\* the paths of t under directory d
Under(t, d) == {p \in DOMAIN t : Len(p) > Len(d) /\ SubSeq(p, 1, Len(d)) = d}
\* the directories a file at path p lies in
Parents(p) == {SubSeq(p, 1, n) : n \in 1..(Len(p) - 1)}
\* the content of path p in tree t, <<>> when t has no such path
At(t, p) == IF p \in DOMAIN t THEN <<t[p]>> ELSE <<>>

\* git rm -rf <dir>: the tracked files under dir leave the index and the
\* working tree, with the directories this empties; fatal when none is tracked
git_rm(wc, d) ==
    LET tracked == Under(wc.index, d)
        files == Without(wc.files, tracked)
        emptied == {q \in wc.dirs : (q = d \/ (Len(q) > Len(d) /\ SubSeq(q, 1, Len(d)) = d))
                                    /\ Under(files, q) = {}}
    IN IF tracked = {}
       THEN [w |-> wc, rc |-> 128, out |-> "", err |-> "fatal: pathspec did not match any files"]
       ELSE [w |-> [wc EXCEPT !.index = Without(@, tracked), !.files = files,
                              !.dirs = @ \ emptied],
             rc |-> 0, out |-> "rm", err |-> ""]

\* the three-way merge of HEAD and the remote head over origin/master
MergePaths(wc, rem) == DOMAIN wc.head \cup DOMAIN rem \cup DOMAIN wc.tracking
Conflicts(wc, rem) ==
    {p \in MergePaths(wc, rem) :
        /\ At(wc.head, p) # At(wc.tracking, p)
        /\ At(rem, p) # At(wc.tracking, p)
        /\ At(wc.head, p) # At(rem, p)}
\* the paths the merge changes in HEAD
Incoming(wc, rem) ==
    {p \in MergePaths(wc, rem) :
        At(wc.head, p) = At(wc.tracking, p) /\ At(rem, p) # At(wc.tracking, p)}
\* the paths with changes that are not committed
Dirty(wc) ==
    {p \in DOMAIN wc.files \cup DOMAIN wc.index \cup DOMAIN wc.head :
        At(wc.index, p) # At(wc.head, p)
        \/ At(wc.files, p) # At(wc.index, p)}
\* tree t with the paths of P as they are in rem
Apply(t, P, rem) ==
    [p \in (DOMAIN t \ P) \cup (P \cap DOMAIN rem) |-> IF p \in P THEN rem[p] ELSE t[p]]

git_pull_FastForwardOnly(wc, rem) ==
    LET inc == Incoming(wc, rem)
        fetched == [wc EXCEPT !.tracking = rem]
    IN IF inc # {} /\ wc.head # wc.tracking
       THEN [w |-> fetched, rc |-> 128, out |-> "", err |-> "Not possible to fast-forward"]
       ELSE [w |-> [fetched EXCEPT !.head = Apply(@, inc, rem),
                                   !.index = Apply(@, inc, rem),
                                   !.files = Apply(@, inc, rem),
                                   !.dirs = @ \cup UNION {Parents(p) : p \in inc \cap DOMAIN rem}],
             rc |-> 0, out |-> IF inc = {} THEN "Already up to date." ELSE "Updating", err |-> ""]
\* git pull: fetch, then merge the remote head into HEAD
git_pull(wc, rem) ==
    LET inc == Incoming(wc, rem)
        fetched == [wc EXCEPT !.tracking = rem]
    IN IF Conflicts(wc, rem) # {} \/ inc \cap Dirty(wc) # {}
       THEN [w |-> fetched, rc |-> 1, out |-> "CONFLICT", err |-> "Automatic merge failed"]
       ELSE [w |-> [fetched EXCEPT !.head = Apply(@, inc, rem),
                                   !.index = Apply(@, inc, rem),
                                   !.files = Apply(@, inc, rem),
                                   !.dirs = @ \cup UNION {Parents(p) : p \in inc \cap DOMAIN rem}],
             rc |-> 0, out |-> IF inc = {} THEN "Already up to date." ELSE "Updating", err |-> ""]

\* git push origin master: rejected unless the remote head is origin/master
\* as last fetched; the new remote head is HEAD
git_push(wc, rem) ==
    IF rem # wc.tracking
    THEN [w |-> wc, rc |-> 1, out |-> "", err |-> "rejected"]
    ELSE [w |-> [wc EXCEPT !.tracking = wc.head], rc |-> 0, out |-> "",
          err |-> IF wc.head = wc.tracking THEN "Everything up-to-date" ELSE "pushed"]

git(wc, c, envfail) ==
    IF envfail THEN [w |-> wc, rc |-> 128, out |-> "", err |-> "fatal"]
    ELSE CASE c.verb = "add" -> git_add(wc, c.path)
           [] c.verb = "commit" -> git_commit(wc)
           [] c.verb = "config" -> [w |-> wc, rc |-> 0, out |-> UserName, err |-> ""]
           [] c.verb = "rm" -> git_rm(wc, c.path)
           [] c.verb = "pull" -> git_pull(wc, c.remote)
           [] c.verb = "push" -> git_push(wc, c.remote)

\* the cmd_list handed to subprocess.Popen
cmd_list(c) ==
    CASE c.verb = "add" -> <<"git", "add", PathStr(c.path)>>
      [] c.verb = "commit" -> <<"git", "commit", "-m", c.msg>>
      [] c.verb = "config" -> <<"git", "config", "user.name">>
      [] c.verb = "rm" -> <<"git", "rm", "-rf", PathStr(c.path)>>
      [] c.verb = "pull" -> <<"git", "pull">>
      [] c.verb = "push" -> <<"git", "push", "origin", "master">>

RECURSIVE ReprItems(_)
ReprItems(l) == IF l = <<>> THEN ""
                ELSE "'" \o Head(l) \o "'"
                     \o (IF Len(l) > 1 THEN ", " ELSE "") \o ReprItems(Tail(l))
\* "{}".format(cmd_list)
Repr(l) == "[" \o ReprItems(l) \o "]"

(***************************************************************************)
(* GitLog._run_subprocess_command: what the call prints, and whether it    *)
(* raises Exception("Error on call: ...") or returns the captured stdout.  *)
(***************************************************************************)
run_subprocess_command_NoRaise(cmd, proc, quiet) ==
    [cmd |-> cmd, rc |-> proc.rc, out |-> proc.out, err |-> proc.err,
     printed |-> <<"Subprocess: " \o Repr(cmd)>>,
     raised |-> FALSE, value |-> proc.out]
run_subprocess_command(cmd, proc, quiet) ==
    [cmd |-> cmd, rc |-> proc.rc, out |-> proc.out, err |-> proc.err,
     printed |-> <<"Subprocess: " \o Repr(cmd)>>
                 \o (IF quiet THEN <<>> ELSE <<proc.out, proc.err>>)
                 \o (IF proc.rc # 0 /\ ~quiet
                     THEN <<"########### Error on call: " \o Repr(cmd),
                            proc.out, proc.err, "########### End Error on call">>
                     ELSE <<>>),
     raised |-> proc.rc # 0,
     value |-> IF proc.rc # 0 THEN "Error on call: " \o Repr(cmd) ELSE proc.out]

(***************************************************************************)
(* A handler's run: the working copy so far, the subprocess calls made,    *)
(* and whether an exception is propagating.                                *)
(***************************************************************************)
Run0(wc) == [w |-> wc, calls |-> <<>>, raised |-> FALSE]

\* self._run_subprocess_command(["git", ...], cwd=self.repo_path)
git_call(st, c, envfail) ==
    IF st.raised THEN st
    ELSE LET g == git(st.w, c, envfail)
             r == run_subprocess_command(cmd_list(c), g, FALSE)
         IN [w |-> g.w,
             calls |-> Append(st.calls, [clean |-> st.w.index = st.w.head] @@ r),
             raised |-> r.raised]

\* Which call of a handler suffers the environment failure.  at: "none",
\* "whoami", "entry" (an add of write_entry for the entry), "list" (the add
\* of the sentinel), "msg" (an add of write_entry for message i), "commit".
\* For an add of write_entry, f is the item whose add fails and S the items
\* that iteritems() yielded before it: the iteration order of a dict is
\* unspecified, so S is any set of the other items.
NoKey == ""
NoFault == [at |-> "none", i |-> 0, f |-> NoKey, S |-> {}]

RECURSIVE SeqOf(_)
\* some enumeration of a set of names
SeqOf(S) == IF S = {} THEN <<>>
            ELSE LET x == CHOOSE y \in S : TRUE IN <<x>> \o SeqOf(S \ {x})

(***************************************************************************)
(* GitLog.write_entry                                                      *)
(***************************************************************************)
\* lines 575-578: what is written for a value ("" for a false one)
FileData(v) == IF ~Truthy(v) THEN ""
               ELSE IF HasGetItem(v) THEN v.s ELSE str(v)

RECURSIVE write_items_NoAdd(_, _, _, _, _)
write_items_NoAdd(st, entry, entry_dir, order, failkey) ==
    IF order = <<>> \/ st.raised THEN st
    ELSE LET path == Append(entry_dir, Head(order))
         IN write_items_NoAdd([st EXCEPT !.w = WriteFile(@, path, FileData(entry[Head(order)]))],
                              entry, entry_dir, Tail(order), failkey)

RECURSIVE write_items(_, _, _, _, _)
\* the loop of lines 574-584 over the items in the given order
write_items(st, entry, entry_dir, order, failkey) ==
    IF order = <<>> \/ st.raised THEN st
    ELSE LET filename == Head(order)
             path == Append(entry_dir, filename)
             st1 == [st EXCEPT !.w = WriteFile(@, path, FileData(entry[filename]))]
             st2 == git_call(st1, [verb |-> "add", path |-> path], filename = failkey)
         IN write_items(st2, entry, entry_dir, Tail(order), failkey)

write_entry_keys_NoMd5(entry) == DOMAIN entry \ {"md5"}
\* the items of entry.__dict__ that write_entry stores: all of them
write_entry_keys(entry) == DOMAIN entry

write_entry(st, entry, entry_dir, hit, flt) ==
    IF st.raised THEN st
    ELSE LET st1 == IF Exists(st.w, entry_dir) THEN st
                    ELSE [st EXCEPT !.w = Mkdir(@, entry_dir)]
             order == IF hit THEN SeqOf(flt.S) \o <<flt.f>>
                      ELSE SeqOf(write_entry_keys(entry))
         IN write_items(st1, entry, entry_dir, order, IF hit THEN flt.f ELSE NoKey)

(***************************************************************************)
(* GitLog.add_repeater_entry, GitLog.add_scanner_entry                     *)
(***************************************************************************)
GitLog_add_repeater_entry(st, entry, flt) ==
    IF st.raised THEN st
    ELSE LET entry_dir == <<entry["md5"].s>>
             st1 == IF Exists(st.w, entry_dir) THEN st
                    ELSE [st EXCEPT !.w = Mkdir(@, entry_dir)]
             st2 == write_entry(st1, entry, entry_dir, flt.at = "entry", flt)
         IN git_call(st2, [verb |-> "commit", msg |-> "Added Repeater entry"],
                     flt.at = "commit")

\* del entry.__dict__["messages"]
WithoutMessages(entry) == [k \in DOMAIN entry \ {"messages"} |-> entry[k]]

RECURSIVE write_messages(_, _, _, _, _)
\* the loop of lines 555-561, from list index i (0-based)
write_messages(st, messages, messages_dir, i, flt) ==
    IF i >= Len(messages) \/ st.raised THEN st
    ELSE LET message_dir == Append(messages_dir, ToString(i))
             st1 == IF Exists(st.w, message_dir) THEN st
                    ELSE [st EXCEPT !.w = Mkdir(@, message_dir)]
             st2 == write_entry(st1, messages[i + 1], message_dir,
                                flt.at = "msg" /\ flt.i = i, flt)
         IN write_messages(st2, messages, messages_dir, i + 1, flt)

GitLog_add_scanner_entry(st, entry, flt) ==
    IF st.raised THEN st
    ELSE LET entry_dir == <<entry["md5"].s>>
             messages == entry["messages"].l
             st1 == write_entry(st, WithoutMessages(entry), entry_dir,
                                flt.at = "entry", flt)
             messages_dir == Append(entry_dir, "messages")
             lpath == Append(messages_dir, ".burp-list")
             st2 == IF st1.raised \/ Exists(st1.w, messages_dir) THEN st1
                    ELSE git_call([st1 EXCEPT !.w = WriteFile(Mkdir(@, messages_dir),
                                                              lpath, "")],
                                  [verb |-> "add", path |-> lpath], flt.at = "list")
             st3 == write_messages(st2, messages, messages_dir, 0, flt)
         IN git_call(st3, [verb |-> "commit", msg |-> "Added scanner entry"],
                     flt.at = "commit")

(***************************************************************************)
(* GitLog.entries: load_entry, load_list and the walk of the working copy. *)
(* os.listdir returns names in no particular order, so each operator gives *)
(* the set of results the listing orders can produce.                      *)
(***************************************************************************)
Perms(S) == {s \in [1..Cardinality(S) -> S] : \A x \in S : \E i \in DOMAIN s : s[i] = x}

RECURSIVE Product(_)
\* all functions that pick, for each x of the domain, one element of choices[x]
Product(choices) ==
    IF DOMAIN choices = {} THEN {[x \in {} |-> x]}
    ELSE LET x == CHOOSE y \in DOMAIN choices : TRUE
             rest == [y \in DOMAIN choices \ {x} |-> choices[y]]
         IN {(x :> v) @@ r : v \in choices[x], r \in Product(rest)}

\* the orders in which the loop of line 619 can see the element directories
load_list_order(names) == Perms(names)

RECURSIVE load_entry(_, _), load_list(_, _)
load_entry(wc, entry_path) ==
    LET names == ListDir(wc, entry_path)
        value(filename) ==
            LET file_path == Append(entry_path, filename)
            IN IF IsDir(wc, file_path)
               THEN IF ".burp-list" \in ListDir(wc, file_path)
                    THEN {PyList(l) : l \in load_list(wc, file_path)}
                    ELSE {PyEntry(e) : e \in load_entry(wc, file_path)}
               ELSE {PyStr(wc.files[file_path])}
    IN {d @@ LogEntry(<<>>) : d \in Product([n \in names |-> value(n)])}

load_list(wc, entry_path) ==
    LET names == ListDir(wc, entry_path) \ {".burp-list"}
    IN UNION {Product([i \in 1..Len(order) |->
                          load_entry(wc, Append(entry_path, order[i]))]) :
              order \in load_list_order(names)}

\* the sequences entries() can yield; each element remembers the directory
\* it was loaded from
entries(wc) ==
    LET names == {n \in ListDir(wc, <<>>) : n # ".git" /\ IsDir(wc, <<n>>)}
    IN UNION {Product([i \in 1..Len(order) |->
                          {[dir |-> order[i], entry |-> e] :
                               e \in load_entry(wc, <<order[i]>>)}]) :
              order \in Perms(names)}

(***************************************************************************)
(* Codec runs: a LogEntry is built from keyword arguments, written to a    *)
(* fresh working copy by add_repeater_entry / add_scanner_entry, and read  *)
(* back by entries().                                                      *)
(***************************************************************************)
Msg(x) == LogEntry(<<[k |-> "request", v |-> PyStr(x)]>>)
MsgLists(n) == UNION {[1..m -> {Msg("A"), Msg("B")}] : m \in 0..n}

CodecFields == {"host", "port", "messages", "items"}
CodecValues(k) ==
    CASE k = "host" -> {PyStr("a"), PyStr(""), PyNone}
      [] k = "port" -> {PyInt(443), PyInt(0)}
      [] k = "messages" -> {PyList(l) : l \in MsgLists(MaxListLen)}
      [] k = "items" -> {PyList(<<>>), PyList(<<Msg("A")>>)}

\* every choice of fields, iteration order and values
CodecInputs ==
    UNION {Product([i \in 1..Len(order) |->
                       {[k |-> order[i], v |-> v] : v \in CodecValues(order[i])}]) :
           order \in UNION {Perms(K) : K \in SUBSET CodecFields}}

NoEntry == [k \in {} |-> PyNone]

CodecInit ==
    /\ c_kw \in CodecInputs
    /\ c_pc = "new"
    /\ c_entry = NoEntry
    /\ c_w = EmptyWorld
    /\ c_out = <<>>

\* LogEntry(**c_kw)
CodecBuild ==
    /\ c_pc = "new"
    /\ IF LogEntry_raises(c_kw)
       THEN c_pc' = "raised" /\ c_entry' = NoEntry
       ELSE c_pc' = "built" /\ c_entry' = LogEntry(c_kw)
    /\ UNCHANGED <<c_kw, c_w, c_out>>
    /\ UNCHANGED <<store_vars, sync_vars, bind_vars, gui_vars>>

\* a scan issue (an entry with "messages") goes through add_scanner_entry,
\* any other entry through add_repeater_entry; c_entry keeps the entry as built
CodecWrite ==
    /\ c_pc = "built"
    /\ LET st == IF "messages" \in DOMAIN c_entry
                 THEN GitLog_add_scanner_entry(Run0(EmptyWorld), c_entry, NoFault)
                 ELSE GitLog_add_repeater_entry(Run0(EmptyWorld), c_entry, NoFault)
       IN /\ c_w' = st.w
          /\ c_pc' = IF st.raised THEN "raised" ELSE "written"
    /\ UNCHANGED <<c_kw, c_entry, c_out>>
    /\ UNCHANGED <<store_vars, sync_vars, bind_vars, gui_vars>>

\* list(self.entries())
CodecRead ==
    /\ c_pc = "written"
    /\ \E ys \in entries(c_w) : c_out' = ys
    /\ c_pc' = "read"
    /\ UNCHANGED <<c_kw, c_entry, c_w>>
    /\ UNCHANGED <<store_vars, sync_vars, bind_vars, gui_vars>>

(***************************************************************************)
(* The store: Log, GuiLog and GitLog on the active working copy.           *)
(***************************************************************************)
RepeaterHosts == {"a"}
ScannerHosts == {"c"}
Requests == {"A"}
\* datetime.now() to the second: the stores of one second
Timestamps == {"2026-01-01 00:00:00"}

\* result is what a handler that did not raise returned
NoOp == [name |-> "init", entry |-> NoEntry, fresh |-> FALSE, flt |-> NoFault,
         calls |-> <<>>, raised |-> FALSE, yielded |-> <<>>, result |-> "None",
         arg |-> ""]

\* GuiLog.__init__: the lock is free and no call is in progress
Threads == {"edt", "burp"}
GuiInit ==
    /\ lock = "none"
    /\ stack = [t \in Threads |-> <<>>]

StoreInit ==
    /\ w = EmptyWorld
    /\ log = <<>>
    /\ op = NoOp
    /\ faults = 0

\* the environment failures an add of write_entry can meet that are injected:
\* the add of the first item iterated or of the last one, that item being
\* "md5" or another one
FaultKeys(keys) == keys \cap {"host", "request", "md5"}
AddFaults(at, i, keys) ==
    UNION {{[at |-> at, i |-> i, f |-> f, S |-> S] : S \in {{}, keys \ {f}}} :
           f \in FaultKeys(keys)}
CallFault(at) == [at |-> at, i |-> 0, f |-> NoKey, S |-> {}]

EntryKeys == {"host", "port", "timestamp", "who", "description", "md5"}
MessageKeys == {"request", "md5"}

\* an environment failure that was asked for did happen
Fired(calls) == \E i \in DOMAIN calls : calls[i].rc = 128

\* GuiLog.add_entry
GuiLog_add_entry(l, entry) == Append(l, entry)

\* Log.add_repeater_entry; the keyword arguments are listed in the order in
\* which this interpreter iterates a dict with these keys
Log_add_repeater_entry(host, timestamp, flt) ==
    /\ Len(log) < MaxLog
    /\ flt = NoFault \/ faults < MaxFaults
    /\ LET st1 == git_call(Run0(w), [verb |-> "config"], flt.at = "whoami")
       IN IF st1.raised
          THEN /\ flt.at = "whoami"
               /\ op' = [NoOp EXCEPT !.name = "add_repeater_entry", !.flt = flt,
                                     !.calls = st1.calls, !.raised = TRUE]
               /\ faults' = faults + 1
               /\ UNCHANGED <<w, log>>
          ELSE LET entry == LogEntry(<<[k |-> "host", v |-> PyStr(host)],
                                       [k |-> "port", v |-> PyInt(443)],
                                       [k |-> "timestamp", v |-> PyStr(timestamp)],
                                       [k |-> "who", v |-> PyStr(st1.calls[1].value)],
                                       [k |-> "description", v |-> PyStr("")]>>)
                   st2 == GitLog_add_repeater_entry(st1, entry, flt)
               IN /\ flt # NoFault => Fired(st2.calls)
                  /\ log' = GuiLog_add_entry(log, entry)
                  /\ w' = st2.w
                  /\ op' = [NoOp EXCEPT !.name = "add_repeater_entry",
                                        !.entry = entry,
                                        !.fresh = ~Exists(w, <<entry["md5"].s>>),
                                        !.flt = flt, !.calls = st2.calls,
                                        !.raised = st2.raised]
                  /\ faults' = faults + (IF flt = NoFault THEN 0 ELSE 1)
    /\ UNCHANGED <<codec_vars, sync_vars, bind_vars, gui_vars>>

\* Log.add_scanner_entry; git_log.add_scanner_entry deletes "messages" from
\* the entry object that gui_log holds
Log_add_scanner_entry(host, timestamp, requests, flt) ==
    /\ Len(log) < MaxLog
    /\ flt = NoFault \/ faults < MaxFaults
    /\ LET messages == [i \in 1..Len(requests) |-> Msg(requests[i])]
           st1 == git_call(Run0(w), [verb |-> "config"], flt.at = "whoami")
       IN IF st1.raised
          THEN /\ flt.at = "whoami"
               /\ op' = [NoOp EXCEPT !.name = "add_scanner_entry", !.flt = flt,
                                     !.calls = st1.calls, !.raised = TRUE]
               /\ faults' = faults + 1
               /\ UNCHANGED <<w, log>>
          ELSE LET entry == LogEntry(<<[k |-> "host", v |-> PyStr(host)],
                                       [k |-> "port", v |-> PyInt(443)],
                                       [k |-> "timestamp", v |-> PyStr(timestamp)],
                                       [k |-> "who", v |-> PyStr(st1.calls[1].value)],
                                       [k |-> "description", v |-> PyStr("")],
                                       [k |-> "messages", v |-> PyList(messages)]>>)
                   st2 == GitLog_add_scanner_entry(st1, entry, flt)
               IN /\ flt # NoFault => Fired(st2.calls)
                  /\ log' = GuiLog_add_entry(log, WithoutMessages(entry))
                  /\ w' = st2.w
                  /\ op' = [NoOp EXCEPT !.name = "add_scanner_entry",
                                        !.entry = entry,
                                        !.fresh = ~Exists(w, <<entry["md5"].s>>),
                                        !.flt = flt, !.calls = st2.calls,
                                        !.raised = st2.raised]
                  /\ faults' = faults + (IF flt = NoFault THEN 0 ELSE 1)
    /\ UNCHANGED <<codec_vars, sync_vars, bind_vars, gui_vars>>

\* GitLog.entries for the active working copy: nothing is yielded when
\* repo_path is None; os.listdir raises when the directory of repo_path does
\* not exist; the working copies other than "repo" hold no records
GitLog_entries ==
    IF git_log.repo_path = PyNone THEN [raised |-> FALSE, yields |-> {<<>>}]
    ELSE IF git_log.repo_path = PyStr(RepoPath) /\ "repo" \in DOMAIN base
    THEN [raised |-> FALSE, yields |-> entries(w)]
    ELSE IF \E d \in DOMAIN base : git_log.repo_path = PyStr(BasePath \o d)
    THEN [raised |-> FALSE, yields |-> {<<>>}]
    ELSE [raised |-> TRUE, yields |-> {<<>>}]

Log_reload_NoClear ==
    /\ \E ys \in GitLog_entries.yields :
          /\ log' = log \o [i \in 1..Len(ys) |-> ys[i].entry]
          /\ op' = [NoOp EXCEPT !.name = "reload", !.yielded = ys,
                                !.raised = GitLog_entries.raised]
    /\ UNCHANGED <<w, faults>>
    /\ UNCHANGED <<codec_vars, sync_vars, bind_vars, gui_vars>>
\* Log.reload: gui_log.clear(), then add_entry for each entry of entries()
Log_reload ==
    /\ \E ys \in GitLog_entries.yields :
          /\ log' = [i \in 1..Len(ys) |-> ys[i].entry]
          /\ op' = [NoOp EXCEPT !.name = "reload", !.yielded = ys,
                                !.raised = GitLog_entries.raised]
    /\ UNCHANGED <<w, faults>>
    /\ UNCHANGED <<codec_vars, sync_vars, bind_vars, gui_vars>>

RepeaterFaults ==
    {NoFault, CallFault("whoami"), CallFault("commit")} \cup AddFaults("entry", 0, EntryKeys)
ScannerFaults(n) ==
    RepeaterFaults \cup {CallFault("list")}
        \cup UNION {AddFaults("msg", i, MessageKeys) : i \in 0..(n - 1)}

AddRepeater ==
    \E host \in RepeaterHosts, timestamp \in Timestamps, flt \in RepeaterFaults :
        Log_add_repeater_entry(host, timestamp, flt)

AddScanner ==
    \E host \in ScannerHosts, timestamp \in Timestamps, n \in 0..MaxMsgs :
        \E requests \in [1..n -> Requests], flt \in ScannerFaults(n) :
            Log_add_scanner_entry(host, timestamp, requests, flt)

Reload == Log_reload

(***************************************************************************)
(* Remove, pull, push and the edit of a description, with the remote and   *)
(* the other user who pushes to it.                                        *)
(***************************************************************************)
Descriptions == {"d"}
OtherUser == "bob"

\* GitLog.remove
GitLog_remove(st, entry, flt) ==
    LET entry_path == <<entry["md5"].s>>
        st1 == git_call(st, [verb |-> "rm", path |-> entry_path], flt.at = "rm")
    IN git_call(st1, [verb |-> "commit",
                      msg |-> "Removed entry at " \o PathStr(entry_path)],
                flt.at = "commit")

\* GuiLog.remove_entry: the first entry with the md5 of the given one goes
GuiLog_remove_entry(l, entry) ==
    LET hits == {i \in DOMAIN l : l[i]["md5"] = entry["md5"]}
    IN IF hits = {} THEN l
       ELSE LET i == CHOOSE j \in hits : \A k \in hits : j <= k
            IN SubSeq(l, 1, i - 1) \o SubSeq(l, i + 1, Len(l))

\* GitLog.pull
GitLog_pull(st, rem, flt) ==
    git_call(st, [verb |-> "pull", remote |-> rem], flt.at = "pull")

GitLog_push_NoPull(st, rem, flt) ==
    git_call(st, [verb |-> "push", remote |-> rem], flt.at = "push")
\* GitLog.push: git pull, then git push origin master
GitLog_push(st, rem, flt) ==
    LET st1 == git_call(st, [verb |-> "pull", remote |-> rem], flt.at = "pull")
    IN git_call(st1, [verb |-> "push", remote |-> rem], flt.at = "push")

IsPush(call) == call.cmd[2] = "push"
IsPull(call) == call.cmd[2] = "pull"
\* the remote head after a handler's run: HEAD when its push succeeded
RemoteAfter(st, rem) ==
    IF \E i \in DOMAIN st.calls : IsPush(st.calls[i]) /\ st.calls[i].rc = 0
    THEN st.w.head ELSE rem

GitLog_set_description_NoCheck(st, rem, entry_hash, description, flt) ==
    LET description_file == <<entry_hash, "description">>
        st1 == git_call(st, [verb |-> "config"], flt.at = "whoami")
        st2 == IF st1.raised THEN st1
               ELSE [st1 EXCEPT !.w = WriteFile(@, description_file, description)]
        st3 == git_call(st2, [verb |-> "add", path |-> description_file], flt.at = "add")
        st4 == git_call(st3, [verb |-> "commit", msg |-> "Edited description entry"],
                        flt.at = "commit")
        st5 == git_call(st4, [verb |-> "pull", remote |-> rem], flt.at = "pull")
    IN [run |-> git_call(st5, [verb |-> "push", remote |-> rem], flt.at = "push"),
        result |-> "None"]

\* GitLog.set_description: the run, and the value returned when it does not raise
GitLog_set_description(st, rem, entry_hash, description, flt) ==
    LET entry_path == <<entry_hash>>
        who_file == Append(entry_path, "who")
        description_file == Append(entry_path, "description")
    IN IF who_file \notin DOMAIN st.w.files
       THEN [run |-> [st EXCEPT !.raised = TRUE], result |-> "None"]
       ELSE LET who == st.w.files[who_file]
                st1 == git_call(st, [verb |-> "config"], flt.at = "whoami")
            IN IF st1.raised THEN [run |-> st1, result |-> "None"]
               ELSE IF who # st1.calls[Len(st1.calls)].value
               THEN [run |-> st1, result |-> "False"]
               ELSE LET st2 == [st1 EXCEPT !.w = WriteFile(@, description_file, description)]
                        st3 == git_call(st2, [verb |-> "add", path |-> description_file],
                                        flt.at = "add")
                        st4 == git_call(st3, [verb |-> "commit",
                                              msg |-> "Edited description entry"],
                                        flt.at = "commit")
                    IN [run |-> GitLog_push(st4, rem, flt), result |-> "None"]

\* the list GuiLog holds after Log.reload has added what entries() yielded
Reloaded(ys) == [i \in 1..Len(ys) |-> ys[i].entry]

Log_remove_GuiFirst(i, flt) ==
    /\ flt = NoFault \/ faults < MaxFaults
    /\ LET entry == log[i]
           st == GitLog_remove(Run0(w), entry, flt)
       IN /\ flt # NoFault => Fired(st.calls)
          /\ w' = st.w
          /\ log' = SubSeq(log, 1, i - 1) \o SubSeq(log, i + 1, Len(log))
          /\ op' = [NoOp EXCEPT !.name = "remove", !.entry = entry, !.flt = flt,
                                !.calls = st.calls, !.raised = st.raised]
    /\ faults' = faults + (IF flt = NoFault THEN 0 ELSE 1)
    /\ UNCHANGED <<codec_vars, sync_vars, bind_vars, gui_vars>>

\* Log.remove of the entry selected in row i
Log_remove(i, flt) ==
    /\ flt = NoFault \/ faults < MaxFaults
    /\ LET entry == log[i]
           st == GitLog_remove(Run0(w), entry, flt)
       IN /\ flt # NoFault => Fired(st.calls)
          /\ w' = st.w
          /\ log' = IF st.raised THEN log ELSE GuiLog_remove_entry(log, entry)
          /\ op' = [NoOp EXCEPT !.name = "remove", !.entry = entry, !.flt = flt,
                                !.calls = st.calls, !.raised = st.raised]
    /\ faults' = faults + (IF flt = NoFault THEN 0 ELSE 1)
    /\ UNCHANGED <<codec_vars, sync_vars, bind_vars, gui_vars>>

PullAction_ReloadFirst(flt) ==
    /\ flt = NoFault \/ faults < MaxFaults
    /\ LET st == GitLog_pull(Run0(w), remote, flt)
       IN /\ flt # NoFault => Fired(st.calls)
          /\ w' = st.w
          /\ op' = [NoOp EXCEPT !.name = "pull", !.flt = flt, !.calls = st.calls,
                                !.raised = st.raised]
          /\ \E ys \in entries(w) : log' = Reloaded(ys)
    /\ faults' = faults + (IF flt = NoFault THEN 0 ELSE 1)
    /\ UNCHANGED <<codec_vars, sync_vars, bind_vars, gui_vars>>

\* PullAction.actionPerformed: log.pull(), then log.reload()
PullAction(flt) ==
    /\ flt = NoFault \/ faults < MaxFaults
    /\ LET st == GitLog_pull(Run0(w), remote, flt)
       IN /\ flt # NoFault => Fired(st.calls)
          /\ w' = st.w
          /\ op' = [NoOp EXCEPT !.name = "pull", !.flt = flt, !.calls = st.calls,
                                !.raised = st.raised]
          /\ IF st.raised THEN log' = log
             ELSE \E ys \in entries(st.w) : log' = Reloaded(ys)
    /\ faults' = faults + (IF flt = NoFault THEN 0 ELSE 1)
    /\ UNCHANGED <<codec_vars, sync_vars, bind_vars, gui_vars>>

\* PushAction.actionPerformed: log.push()
PushAction(flt) ==
    /\ flt = NoFault \/ faults < MaxFaults
    /\ LET st == GitLog_push(Run0(w), remote, flt)
       IN /\ flt # NoFault => Fired(st.calls)
          /\ w' = st.w
          /\ remote' = RemoteAfter(st, remote)
          /\ op' = [NoOp EXCEPT !.name = "push", !.flt = flt, !.calls = st.calls,
                                !.raised = st.raised]
    /\ faults' = faults + (IF flt = NoFault THEN 0 ELSE 1)
    /\ UNCHANGED <<log, codec_vars, bind_vars, gui_vars>>

\* SetDescriptionAction.actionPerformed with row i selected:
\* log.set_description(entry.md5, text), then log.reload()
SetDescriptionAction(i, description, flt) ==
    /\ flt = NoFault \/ faults < MaxFaults
    /\ LET entry == log[i]
           r == GitLog_set_description(Run0(w), remote, entry["md5"].s, description, flt)
           st == r.run
       IN /\ flt # NoFault => Fired(st.calls)
          /\ w' = st.w
          /\ remote' = RemoteAfter(st, remote)
          /\ op' = [NoOp EXCEPT !.name = "set_description", !.entry = entry,
                                !.flt = flt, !.calls = st.calls, !.raised = st.raised,
                                !.result = r.result]
          /\ IF st.raised THEN log' = log
             ELSE \E ys \in entries(st.w) : log' = Reloaded(ys)
    /\ faults' = faults + (IF flt = NoFault THEN 0 ELSE 1)
    /\ UNCHANGED <<codec_vars, bind_vars, gui_vars>>

\* the tree a stored entry makes
TreeOf(entry) ==
    [p \in {<<entry["md5"].s, k>> : k \in DOMAIN entry} |-> FileData(entry[p[2]])]

\* what the other user stores: a repeater entry of theirs
OtherEntry ==
    LogEntry(<<[k |-> "host", v |-> PyStr("b")],
               [k |-> "port", v |-> PyInt(443)],
               [k |-> "timestamp", v |-> PyStr("2026-01-01 00:00:00")],
               [k |-> "who", v |-> PyStr(OtherUser)],
               [k |-> "description", v |-> PyStr("")]>>)

\* the other user's Burp stores an entry and pushes it
OtherUserPush ==
    /\ DOMAIN TreeOf(OtherEntry) \cap DOMAIN remote = {}
    /\ remote' = TreeOf(OtherEntry) @@ remote
    /\ op' = [NoOp EXCEPT !.name = "other"]
    /\ UNCHANGED <<w, log, faults, codec_vars, bind_vars, gui_vars>>

\* a store of a repeater entry, with the failures of its adds and commit
Store ==
    \E host \in RepeaterHosts, timestamp \in Timestamps,
       flt \in {NoFault, CallFault("commit"),
                [at |-> "entry", i |-> 0, f |-> "md5", S |-> {}]} :
        Log_add_repeater_entry(host, timestamp, flt)

Remove ==
    \E i \in DOMAIN log, flt \in {NoFault, CallFault("rm"), CallFault("commit")} :
        Log_remove(i, flt)

Pull == \E flt \in {NoFault, CallFault("pull")} : PullAction(flt)

Push == \E flt \in {NoFault, CallFault("pull"), CallFault("push")} : PushAction(flt)

SetDescription ==
    \E i \in DOMAIN log, description \in Descriptions,
       flt \in {NoFault, CallFault("whoami"), CallFault("add"), CallFault("commit"),
                CallFault("pull"), CallFault("push")} :
        SetDescriptionAction(i, description, flt)

(***************************************************************************)
(* The bindings of projects to repositories: repo_path_relations.txt,      *)
(* reload_project, save_current_project_repo and the derived paths.        *)
(***************************************************************************)

RECURSIVE Split(_, _)
\* s.split(sep)
Split(s, sep) ==
    LET hits == {i \in 1..(Len(s) - Len(sep) + 1) : SubSeq(s, i, i + Len(sep) - 1) = sep}
    IN IF hits = {} THEN <<s>>
       ELSE LET i == CHOOSE j \in hits : \A k \in hits : j <= k
            IN <<SubSeq(s, 1, i - 1)>> \o Split(SubSeq(s, i + Len(sep), Len(s)), sep)

RECURSIVE Join(_, _)
\* sep.join(l)
Join(l, sep) == IF l = <<>> THEN ""
                ELSE IF Len(l) = 1 THEN l[1]
                ELSE l[1] \o sep \o Join(Tail(l), sep)

\* '{}'.format(v)
Format(v) == IF v.t = "str" THEN v.s ELSE str(v)

\* repo_uri.split('/')[-1].split('.git')[0]
extract_repo_name(repo_uri) ==
    LET segments == Split(repo_uri, "/")
    IN Split(segments[Len(segments)], ".git")[1]

\* os.path.join(self.base_path, repo_name)
generate_path_repo_name(repo_name) == BasePath \o repo_name

\* os.path.exists of such a path
PathExists(b, repo_name) == repo_name = "" \/ repo_name \in DOMAIN b

NoRels == [k \in {} |-> ""]
NoFile == [exists |-> FALSE, data |-> ""]

RECURSIVE parse_lines_StopAtMalformed(_, _)
parse_lines_StopAtMalformed(lines, rels) ==
    IF lines = <<>> THEN rels
    ELSE LET parts == Split(Head(lines), ",")
         IN IF Len(parts) = 2
            THEN parse_lines_StopAtMalformed(Tail(lines), (PyStr(parts[1]) :> parts[2]) @@ rels)
            ELSE rels
RECURSIVE parse_lines(_, _)
\* lines 422-427: a line that does not unpack into two parts is skipped
parse_lines(lines, rels) ==
    IF lines = <<>> THEN rels
    ELSE LET parts == Split(Head(lines), ",")
         IN parse_lines(Tail(lines),
                        IF Len(parts) = 2 THEN (PyStr(parts[1]) :> parts[2]) @@ rels
                        ELSE rels)

\* lines 419-427
load_rels(file) ==
    IF file.exists THEN parse_lines(Split(file.data, "\n"), NoRels) ELSE NoRels

\* the binding of project name p (a Python value), None when it has none
resolve(g, p) ==
    IF p \in DOMAIN g.project_repo_rels THEN PyStr(g.project_repo_rels[p]) ELSE PyNone

\* GitLog.reload_project, given what get_current_project_name returned and
\* whether prefs.xml could be read
GitLog_reload_project(g, file, name, prefs_ok) ==
    LET rels == load_rels(file)
        project_name == IF name = PyStr("Temporary Project") \/ name = PyNone \/ ~prefs_ok
                        THEN PyNone ELSE name
    IN IF project_name \in DOMAIN rels
       THEN [project_repo_rels |-> rels, project_name |-> project_name,
             repo_uri |-> PyStr(rels[project_name]),
             repo_path |-> PyStr(generate_path_repo_name(extract_repo_name(rels[project_name])))]
       ELSE [project_repo_rels |-> rels, project_name |-> project_name,
             repo_uri |-> PyNone, repo_path |-> g.repo_path]

\* GitLog.save_current_project_repo; order is the order of rels.items()
save_current_project_repo(g, order) ==
    LET rels == (g.project_name :> g.repo_uri.s) @@ g.project_repo_rels
        lines == [i \in 1..Len(order) |-> Format(order[i]) \o "," \o Format(PyStr(rels[order[i]]))]
    IN [g |-> [g EXCEPT !.project_repo_rels = rels],
        file |-> [exists |-> TRUE, data |-> Join(lines, "\n")]]

Projects == {PyStr("demo"), PyStr("Temporary Project")}
RepoUris == {"git@host:org/repo.git", "git@host:org/my.github.git", "git@host:org/a,b.git"}
UserEmail == "alice@example.org"

\* the working copy directory "repo" when it does not exist
NoWorld == [files |-> NoFiles, dirs |-> {}, index |-> NoFiles, head |-> NoFiles,
            tracking |-> NoFiles]

\* git clone of origin into a new directory
Clone(rem) == [files |-> rem, dirs |-> {<<".git">>} \cup UNION {Parents(p) : p \in DOMAIN rem},
               index |-> rem, head |-> rem, tracking |-> rem]

\* the exit of a subprocess that is not a git command of the working copy
Proc(fail) == [rc |-> IF fail THEN 1 ELSE 0, out |-> "", err |-> IF fail THEN "failed" ELSE ""]

\* self._run_subprocess_command(cmd, cwd=self.base_path)
sys_call(st, cmd, fail) ==
    IF st.raised THEN st
    ELSE LET r == run_subprocess_command(cmd, Proc(fail), FALSE)
         IN [w |-> st.w,
             calls |-> Append(st.calls, [clean |-> st.w.index = st.w.head] @@ r),
             raised |-> r.raised]

IsClone(c) == Len(c.cmd) >= 2 /\ c.cmd[1] = "git" /\ c.cmd[2] = "clone"

\* GitLog.__init__: repo_path is None until reload_project finds a binding
GitLog0 == [project_repo_rels |-> NoRels, project_name |-> PyNone,
            repo_uri |-> PyNone, repo_path |-> PyNone]

GitLog_set_config_AlwaysClone(g, wc, b, file, hosts, rem, user, email, repo_uri, order, flt) ==
    LET repo_name == extract_repo_name(repo_uri)
        g1 == [g EXCEPT !.repo_path = PyStr(generate_path_repo_name(repo_name)),
                        !.repo_uri = PyStr(repo_uri)]
        parts == Split(repo_uri, "@")
        server == Split(parts[2], ":")[1]
        s0 == Run0(wc)
        s1 == IF Len(parts) < 2 THEN [s0 EXCEPT !.raised = TRUE]
              ELSE sys_call(s0, <<"ssh-keyscan", server>>, flt.at = "keyscan")
        s2 == IF ~s1.raised /\ flt.at = "hosts" THEN [s1 EXCEPT !.raised = TRUE] ELSE s1
        hosts1 == IF s2.raised THEN hosts ELSE hosts \cup {server \o " ssh-rsa"}
        s3 == sys_call(s2, <<"git", "config", "--global", "user.name", user>>, FALSE)
        s4 == sys_call(s3, <<"git", "config", "--global", "user.email", email>>, FALSE)
        must_clone == TRUE
        s5 == IF must_clone
              THEN sys_call(s4, <<"git", "clone", repo_uri, repo_name>>, flt.at = "clone")
              ELSE s4
        cloned == must_clone /\ ~s5.raised
        saved == save_current_project_repo(g1, order)
    IN [g |-> IF s5.raised THEN g1 ELSE saved.g,
        file |-> IF s5.raised THEN file ELSE saved.file,
        base |-> IF cloned THEN (repo_name :> repo_uri) @@ b ELSE b,
        hosts |-> hosts1,
        run |-> IF cloned /\ repo_name = "repo" THEN [s5 EXCEPT !.w = Clone(rem)] ELSE s5]

\* GitLog.set_config.  order is the order in which items() yields the bindings
\* when the file is written; flt the failure of ssh-keyscan, of the read of
\* known_hosts, or of the clone.
GitLog_set_config(g, wc, b, file, hosts, rem, user, email, repo_uri, order, flt) ==
    LET repo_name == extract_repo_name(repo_uri)
        g1 == [g EXCEPT !.repo_path = PyStr(generate_path_repo_name(repo_name)),
                        !.repo_uri = PyStr(repo_uri)]
        parts == Split(repo_uri, "@")
        server == Split(parts[2], ":")[1]
        s0 == Run0(wc)
        s1 == IF Len(parts) < 2 THEN [s0 EXCEPT !.raised = TRUE]
              ELSE sys_call(s0, <<"ssh-keyscan", server>>, flt.at = "keyscan")
        s2 == IF ~s1.raised /\ flt.at = "hosts" THEN [s1 EXCEPT !.raised = TRUE] ELSE s1
        hosts1 == IF s2.raised THEN hosts ELSE hosts \cup {server \o " ssh-rsa"}
        s3 == sys_call(s2, <<"git", "config", "--global", "user.name", user>>, FALSE)
        s4 == sys_call(s3, <<"git", "config", "--global", "user.email", email>>, FALSE)
        must_clone == ~PathExists(b, repo_name)
        s5 == IF must_clone
              THEN sys_call(s4, <<"git", "clone", repo_uri, repo_name>>, flt.at = "clone")
              ELSE s4
        cloned == must_clone /\ ~s5.raised
        saved == save_current_project_repo(g1, order)
    IN [g |-> IF s5.raised THEN g1 ELSE saved.g,
        file |-> IF s5.raised THEN file ELSE saved.file,
        base |-> IF cloned THEN (repo_name :> repo_uri) @@ b ELSE b,
        hosts |-> hosts1,
        run |-> IF cloned /\ repo_name = "repo" THEN [s5 EXCEPT !.w = Clone(rem)] ELSE s5]

\* The order of items() of a dict is unspecified: the orders that are tried
\* are one enumeration of the keys and its reverse, so that every two keys
\* come in both orders.
ItemOrders(S) ==
    LET l == SeqOf(S) IN {l, [i \in 1..Len(l) |-> l[Len(l) + 1 - i]]}

\* an environment failure of set_config that was asked for did happen
FiredIn(flt, r) ==
    \/ flt.at = "none"
    \/ flt.at = "hosts" /\ r.raised /\ \A i \in DOMAIN r.calls : r.calls[i].rc = 0
    \/ flt.at \in {"keyscan", "clone"} /\ \E i \in DOMAIN r.calls : r.calls[i].rc # 0

\* SetConfigAction.actionPerformed: Log.set_config, then Log.reload_project
SetConfigAction(repo_uri, flt, prefs_ok) ==
    /\ \E order \in ItemOrders(DOMAIN git_log.project_repo_rels \cup {git_log.project_name}) :
          LET r == GitLog_set_config(git_log, w, base, rel_file, known_hosts, remote,
                                     UserName, UserEmail, repo_uri, order, flt)
          IN /\ FiredIn(flt, r.run)
             /\ git_log' = IF r.run.raised THEN r.g
                           ELSE GitLog_reload_project(r.g, r.file, burp_project, prefs_ok)
             /\ rel_file' = r.file
             /\ base' = r.base
             /\ known_hosts' = r.hosts
             /\ w' = r.run.w
             /\ log' = <<>>
             /\ op' = [NoOp EXCEPT !.name = "set_config", !.arg = repo_uri,
                                   !.calls = r.run.calls, !.raised = r.run.raised]
    /\ UNCHANGED <<faults, codec_vars, sync_vars, burp_project, gui_vars>>

\* ReloadActualProjectAction.actionPerformed: Log.reload_project
ReloadActualProjectAction(prefs_ok) ==
    /\ git_log' = GitLog_reload_project(git_log, rel_file, burp_project, prefs_ok)
    /\ log' = <<>>
    /\ op' = [NoOp EXCEPT !.name = "reload_project"]
    /\ UNCHANGED <<w, faults, codec_vars, sync_vars, rel_file, base, burp_project, known_hosts, gui_vars>>

\* DeleteAction.actionPerformed: Log.delete_repo_local of the text of the box
DeleteAction(repo_uri) ==
    LET repo_name == extract_repo_name(repo_uri)
        st == sys_call(Run0(w), <<"rm", "-rf", repo_name>>, FALSE)
    IN /\ base' = [d \in DOMAIN base \ {repo_name} |-> base[d]]
       /\ w' = IF repo_name = "repo" THEN NoWorld ELSE w
       /\ log' = <<>>
       /\ op' = [NoOp EXCEPT !.name = "delete", !.arg = repo_uri, !.calls = st.calls]
       /\ UNCHANGED <<faults, codec_vars, sync_vars, git_log, rel_file, burp_project, known_hosts, gui_vars>>

\* prefs.xml is readable in these runs
SetConfig ==
    \E repo_uri \in RepoUris, flt \in {NoFault, CallFault("clone")} :
        SetConfigAction(repo_uri, flt, TRUE)

ReloadProject == ReloadActualProjectAction(TRUE)

\* the delete of a working copy that exists
Delete ==
    \E repo_uri \in RepoUris :
        extract_repo_name(repo_uri) \in DOMAIN base /\ DeleteAction(repo_uri)


\* a store into the working copy "repo" while it is the active one
StoreActive ==
    /\ git_log.repo_path = PyStr(RepoPath)
    /\ "repo" \in DOMAIN base
    /\ \E host \in RepeaterHosts, timestamp \in Timestamps :
          Log_add_repeater_entry(host, timestamp, NoFault)

\* the store and the synchronisation run in project "demo", bound to the
\* repository cloned as "repo"
BoundInit ==
    /\ burp_project = PyStr("demo")
    /\ rel_file = [exists |-> TRUE, data |-> "demo,git@host:org/repo.git"]
    /\ git_log = GitLog_reload_project(GitLog0, rel_file, burp_project, TRUE)
    /\ base = ("repo" :> "git@host:org/repo.git")
    /\ known_hosts = {"host ssh-rsa"}

\* the association file of a user who bound project "lab" and edited the file
EditedFile == [exists |-> TRUE, data |-> "not a binding\nlab,git@host:org/repo.git\n"]

\* Log.__init__ in a Burp that has one of the projects open: a first start,
\* or a start with that file; nothing is cloned
BindInit ==
    /\ burp_project \in Projects
    /\ rel_file \in {NoFile, EditedFile}
    /\ GuiInit
    /\ git_log = GitLog_reload_project(GitLog0, rel_file, burp_project, TRUE)
    /\ base = [d \in {} |-> ""]
    /\ known_hosts = {}
    /\ w = NoWorld
    /\ log = <<>>
    /\ op = NoOp
    /\ faults = 0
    /\ remote = NoFiles
    /\ c_pc = "off" /\ c_kw = <<>> /\ c_entry = NoEntry /\ c_w = EmptyWorld /\ c_out = <<>>

(***************************************************************************)
(* GuiLog.clear, add_entry and remove_entry statement by statement, run by *)
(* two threads, with the table listeners the fireTable... calls notify.    *)
(***************************************************************************)
MaxDepth == 2       \* calls of GuiLog methods nested on one thread

GuiEntries == {LogEntry(<<[k |-> "host", v |-> PyStr(h)]>>) : h \in {"a", "b"}}
Methods == {"clear", "add_entry", "remove_entry"}

Top(t) == stack[t][Len(stack[t])]
Goto(t, pc) == [stack EXCEPT ![t][Len(stack[t])].pc = pc]
Frame(m, entry) == [m |-> m, entry |-> entry, pc |-> "acquire"]

GuiFrame == UNCHANGED <<w, op, faults, codec_vars, sync_vars, bind_vars>>

\* a handler on a thread with no call in progress calls a method of GuiLog
GuiCall ==
    \E t \in Threads, m \in Methods, entry \in GuiEntries :
        /\ stack[t] = <<>>
        /\ m = "add_entry" => Len(log) < MaxLog
        /\ stack' = [stack EXCEPT ![t] = <<Frame(m, entry)>>]
        /\ UNCHANGED <<lock, log>>
        /\ GuiFrame

\* self._lock.acquire(): threading.Lock is not reentrant
GuiAcquire ==
    \E t \in Threads :
        /\ stack[t] # <<>> /\ Top(t).pc = "acquire"
        /\ lock = "none"
        /\ lock' = t
        /\ stack' = Goto(t, "mutate")
        /\ UNCHANGED log
        /\ GuiFrame

\* lines 298-301: clear empties the list and notifies only when it held entries
GuiClear ==
    \E t \in Threads :
        /\ stack[t] # <<>> /\ Top(t).pc = "mutate" /\ Top(t).m = "clear"
        /\ log' = <<>>
        /\ stack' = Goto(t, IF Len(log) > 0 THEN "fire" ELSE "release")
        /\ UNCHANGED lock
        /\ GuiFrame

\* lines 313-314
GuiAdd ==
    \E t \in Threads :
        /\ stack[t] # <<>> /\ Top(t).pc = "mutate" /\ Top(t).m = "add_entry"
        /\ log' = GuiLog_add_entry(log, Top(t).entry)
        /\ stack' = Goto(t, "fire")
        /\ UNCHANGED lock
        /\ GuiFrame

\* lines 325-330 on a list that holds entries: i is bound when the loop ends
GuiRemove ==
    \E t \in Threads :
        /\ stack[t] # <<>> /\ Top(t).pc = "mutate" /\ Top(t).m = "remove_entry"
        /\ Len(log) > 0
        /\ log' = GuiLog_remove_entry(log, Top(t).entry)
        /\ stack' = Goto(t, "fire")
        /\ UNCHANGED lock
        /\ GuiFrame

\* lines 325-330 on an empty list: the loop body never runs, i is unbound and
\* fireTableRowsDeleted(i, i) raises; nothing catches it, the calls in
\* progress on the thread are unwound
GuiRaise ==
    \E t \in Threads :
        /\ stack[t] # <<>> /\ Top(t).pc = "mutate" /\ Top(t).m = "remove_entry"
        /\ Len(log) = 0
        /\ stack' = [stack EXCEPT ![t] = <<>>]
        /\ UNCHANGED <<lock, log>>
        /\ GuiFrame

\* fireTableRows...: the listeners run on the calling thread and return
GuiNotify ==
    \E t \in Threads :
        /\ stack[t] # <<>> /\ Top(t).pc = "fire"
        /\ stack' = Goto(t, "release")
        /\ UNCHANGED <<lock, log>>
        /\ GuiFrame

\* fireTableRows...: a listener calls a method of GuiLog
GuiReenter ==
    \E t \in Threads, m \in Methods, entry \in GuiEntries :
        /\ stack[t] # <<>> /\ Top(t).pc = "fire"
        /\ Len(stack[t]) < MaxDepth
        /\ m = "add_entry" => Len(log) < MaxLog
        /\ stack' = [stack EXCEPT ![t] = Append(@, Frame(m, entry))]
        /\ UNCHANGED <<lock, log>>
        /\ GuiFrame

\* self._lock.release() and the return
GuiRelease ==
    \E t \in Threads :
        /\ stack[t] # <<>> /\ Top(t).pc = "release"
        /\ lock' = "none"
        /\ stack' = [stack EXCEPT ![t] = SubSeq(@, 1, Len(@) - 1)]
        /\ UNCHANGED log
        /\ GuiFrame

(***************************************************************************)
(* The specifications: the store, and the codec runs.                      *)
(***************************************************************************)
SyncInit == remote = NoFiles

Init ==
    /\ StoreInit
    /\ GuiInit
    /\ SyncInit
    /\ BoundInit
    /\ c_pc = "off" /\ c_kw = <<>> /\ c_entry = NoEntry /\ c_w = EmptyWorld /\ c_out = <<>>

Next == AddRepeater \/ AddScanner \/ Reload

Spec == Init /\ [][Next]_vars

InitCodec == CodecInit /\ StoreInit /\ SyncInit /\ BoundInit /\ GuiInit

NextCodec == CodecBuild \/ CodecWrite \/ CodecRead

SpecCodec == InitCodec /\ [][NextCodec]_vars

NextSync ==
    \/ Store \/ Reload
    \/ Remove \/ Pull \/ Push \/ SetDescription \/ OtherUserPush

SpecSync == Init /\ [][NextSync]_vars

NextBind == SetConfig \/ ReloadProject \/ Delete \/ StoreActive \/ Reload

SpecBind == BindInit /\ [][NextBind]_vars

\* two repositories whose URIs end in the same path segment
SameNameUris == {"git@host:org/repo.git", "git@host:other/repo.git"}

\* the associate with one of them; the repository of the second URI holds
\* no record either
SetConfigSameName ==
    \E repo_uri \in SameNameUris, flt \in {NoFault, CallFault("clone")} :
        SetConfigAction(repo_uri, flt, TRUE)

NextClone == SetConfigSameName \/ ReloadProject \/ Delete \/ StoreActive \/ Reload

SpecClone == BindInit /\ [][NextClone]_vars

NextGui ==
    \/ GuiCall \/ GuiAcquire \/ GuiClear \/ GuiAdd \/ GuiRemove \/ GuiRaise
    \/ GuiNotify \/ GuiReenter \/ GuiRelease

SpecGui == Init /\ [][NextGui]_vars


(***************************************************************************)
(* Properties of the codec (checked under SpecCodec).                      *)
(***************************************************************************)
\* the fingerprint the code assigns to a LogEntry
fingerprint(entry) == entry["md5"]

\* the caller's fields of a record are text, but for a list "messages"
TextScalars(entry) ==
    \A k \in DOMAIN entry \ {"messages"} : entry[k].t = "str"

\* the same items iterated in another order
Reorderings(kw) ==
    {[i \in 1..Len(kw) |-> kw[p[i]]] : p \in Perms(1..Len(kw))}

WithoutLists(kw) == SelectSeq(kw, LAMBDA item : item.v.t # "list")

EmptyValues == {PyStr(""), PyNone, PyInt(0), PyList(<<>>)}
FieldNames == CodecFields \cup {"note"}
Keys(kw) == {kw[i].k : i \in DOMAIN kw}

\* C1: a record with text scalars and a list "messages" that was written
\* and read back is the record that was written, field by field
C1_RoundTrip ==
    (c_pc = "read" /\ TextScalars(c_entry))
        => (Len(c_out) = 1 /\ c_out[1].entry = c_entry)

\* C2: the fingerprint of the record read back from disk equals the
\* fingerprint of the record that was written
C2_FingerprintStable ==
    c_pc = "read"
        => (Len(c_out) = 1 /\ fingerprint(c_out[1].entry) = fingerprint(c_entry))

C2_Witness ==
    /\ c_pc = "read"
    /\ "messages" \in DOMAIN c_entry /\ Len(c_entry["messages"].l) >= 2
    /\ "host" \in DOMAIN c_entry /\ c_entry["host"] = PyStr("a")
    /\ fingerprint(c_entry) # fingerprint(LogEntry(<<>>))
    /\ fingerprint(c_out[1].entry) = fingerprint(c_entry)

\* C3: the list "messages" read back has the elements in the order in which
\* they were written, whatever order the directory listing has
C3_OrderingPreserved ==
    (c_pc = "read" /\ "messages" \in DOMAIN c_entry)
        => (/\ Len(c_out) = 1
            /\ "messages" \in DOMAIN c_out[1].entry
            /\ c_out[1].entry["messages"] = c_entry["messages"])

\* C4: computing the fingerprint succeeds whatever list-valued fields the
\* record has, and gives the fingerprint of the record without them
C4_ListIndependence ==
    c_pc \in {"built", "raised"}
        => (/\ c_pc = "built"
            /\ fingerprint(c_entry) = fingerprint(LogEntry(WithoutLists(c_kw))))

\* C5: records with the same fields and values have the same fingerprint,
\* in whatever order the fields are iterated
C5_FieldOrderIndependence ==
    c_pc = "built"
        => \A kw \in Reorderings(c_kw) :
               /\ ~LogEntry_raises(kw)
               /\ fingerprint(LogEntry(kw)) = fingerprint(c_entry)

\* C6: a record and the record with one more field, of an empty value, have
\* the same fingerprint
C6_EmptyLikeAbsent ==
    c_pc = "built"
        => \A f \in FieldNames \ Keys(c_kw), e \in EmptyValues :
               \A kw \in Reorderings(Append(c_kw, [k |-> f, v |-> e])) :
                   /\ ~LogEntry_raises(kw)
                   /\ fingerprint(LogEntry(kw)) = fingerprint(c_entry)


(***************************************************************************)
(* Properties of the store (checked under Spec).                           *)
(***************************************************************************)
\* the bytes of a scalar field
Bytes(v) == CASE v.t = "str" -> v.s
              [] v.t = "int" -> ToString(v.n)
              [] v.t = "none" -> ""

\* sub occurs in s
Contains(s, sub) ==
    \E i \in 0..(Len(s) - Len(sub)) : SubSeq(s, i + 1, i + Len(sub)) = sub

IsCommit(call) == call.cmd[2] = "commit"

\* the directory a handler stores op.entry in
EntryDir == <<fingerprint(op.entry).s>>

\* C7: every record that entries() yields has, as its fingerprint, the name
\* of the top-level directory it was read from
C7_FingerprintIsDirName ==
    op.name = "reload"
        => \A i \in DOMAIN op.yielded :
               /\ "md5" \in DOMAIN op.yielded[i].entry
               /\ fingerprint(op.yielded[i].entry) = PyStr(op.yielded[i].dir)

\* C8: storing a capture, with no environment failure and no directory of
\* its fingerprint yet, creates that directory with one file per field, of
\* the field's bytes, and ends with a successful commit of these files
C8_StoreCapture ==
    (op.name = "add_repeater_entry" /\ op.flt = NoFault /\ op.fresh)
        => /\ ~op.raised
           /\ IsDir(w, EntryDir)
           /\ ListDir(w, EntryDir) = DOMAIN op.entry
           /\ \A k \in DOMAIN op.entry :
                  LET path == Append(EntryDir, k)
                  IN /\ path \in DOMAIN w.files
                     /\ w.files[path] = Bytes(op.entry[k])
                     /\ path \in DOMAIN w.head
                     /\ w.head[path] = Bytes(op.entry[k])
           /\ LET last == op.calls[Len(op.calls)]
              IN IsCommit(last) /\ last.rc = 0 /\ ~last.raised

C8_Witness ==
    /\ op.name = "add_repeater_entry" /\ op.flt = NoFault /\ op.fresh
    /\ ~op.raised
    /\ op.entry["host"] = PyStr("a")
    /\ w.files[Append(EntryDir, "host")] = "a"
    /\ w.files[Append(EntryDir, "port")] = "443"
    /\ w.files[Append(EntryDir, "description")] = ""
    /\ \E d \in ListDir(w, <<>>) \ {".git"} : <<d>> # EntryDir
    /\ w.head = w.index

\* C9: a commit made when nothing is staged, with no environment failure,
\* succeeds, and the handler that made it does not raise
C9_IdempotentCommit ==
    \A i \in DOMAIN op.calls :
        (IsCommit(op.calls[i]) /\ op.calls[i].clean /\ op.flt.at # "commit")
            => (op.calls[i].rc = 0 /\ ~op.calls[i].raised /\ ~op.raised)

\* C10: a call whose process exits non-zero raises an error value that
\* carries the command, the captured stdout and the captured stderr, and a
\* call returns the captured stdout only when the exit status is zero
C10_ErrorCarriesOutput ==
    \A i \in DOMAIN op.calls :
        LET call == op.calls[i]
        IN /\ call.rc # 0 => /\ call.raised
                             /\ Contains(call.value, Repr(call.cmd))
                             /\ Contains(call.value, call.out)
                             /\ Contains(call.value, call.err)
           /\ ~call.raised => (call.rc = 0 /\ call.value = call.out)


(***************************************************************************)
(* Properties of remove, pull, push and the edit of a description          *)
(* (checked under SpecSync; C12 under Spec).                               *)
(***************************************************************************)
\* C11: a git command that fails is the last command of its handler, and
\* the handler raises
C11_FailureIsFatal ==
    \A i \in DOMAIN op.calls :
        op.calls[i].rc # 0 => (i = Len(op.calls) /\ op.calls[i].raised /\ op.raised)

C11_Witness ==
    /\ op.name = "push" /\ op.raised
    /\ Len(op.calls) = 1 /\ IsPull(op.calls[1]) /\ op.calls[1].rc # 0

\* a record directory that parses: it holds its md5, which is its name, and
\* every subdirectory of it is marked as a list
WellFormedDir(wc, d) ==
    /\ <<d, "md5">> \in DOMAIN wc.files
    /\ wc.files[<<d, "md5">>] = d
    /\ \A q \in wc.dirs :
           (Len(q) = 2 /\ q[1] = d) => Append(q, ".burp-list") \in DOMAIN wc.files

RecordDirs(wc) == {n \in ListDir(wc, <<>>) : n # ".git" /\ IsDir(wc, <<n>>)}

\* C12: a reload yields exactly the records of the well-formed directories
C12_PartialLoad ==
    op.name = "reload"
        => {op.yielded[i].dir : i \in DOMAIN op.yielded}
               = {d \in RecordDirs(w) : WellFormedDir(w, d)}

\* C13: every git push of a handler comes right after a git pull of the same
\* handler that exited 0
C13_PullBeforePush ==
    \A i \in DOMAIN op.calls :
        IsPush(op.calls[i])
            => (i > 1 /\ IsPull(op.calls[i - 1]) /\ op.calls[i - 1].rc = 0)

C13_Witness ==
    /\ op.name = "push" /\ ~op.raised
    /\ Len(op.calls) = 2 /\ IsPush(op.calls[2]) /\ op.calls[2].rc = 0
    /\ remote = w.head /\ remote # NoFiles

\* the lists a reload of working copy wc can leave in GuiLog
ReloadsOf(wc) == {Reloaded(ys) : ys \in entries(wc)}

\* C14: a pull request whose git pull fails leaves the list as it was; one
\* whose git pull succeeds leaves the list a reload of the pulled working copy
C14_PullThenReload ==
    [][op'.name = "pull"
          => IF op'.raised
             THEN log' = log
             ELSE /\ Len(op'.calls) = 1 /\ IsPull(op'.calls[1]) /\ op'.calls[1].rc = 0
                  /\ w'.tracking = remote
                  /\ log' \in ReloadsOf(w')]_vars

C14_Witness ==
    /\ op.name = "pull" /\ ~op.raised
    /\ \E i \in DOMAIN log : log[i]["md5"] = OtherEntry["md5"]
    /\ \E i \in DOMAIN log : log[i]["md5"] # OtherEntry["md5"]

\* C15: a remove issues git rm -rf on the record's directory, then git
\* commit; the entry leaves the list when both exited 0, and the list is as
\* it was when either failed
C15_RemoveThenCommit ==
    [][op'.name = "remove"
          => /\ op'.calls[1].cmd = <<"git", "rm", "-rf", PathStr(<<fingerprint(op'.entry).s>>)>>
             /\ Len(op'.calls) = 2 => (op'.calls[1].rc = 0 /\ IsCommit(op'.calls[2]))
             /\ IF \E i \in DOMAIN op'.calls : op'.calls[i].rc # 0
                THEN log' = log /\ op'.raised
                ELSE /\ Len(op'.calls) = 2
                     /\ \E i \in DOMAIN log :
                           /\ fingerprint(log[i]) = fingerprint(op'.entry)
                           /\ log' = SubSeq(log, 1, i - 1) \o SubSeq(log, i + 1, Len(log))]_vars

C15_Witness ==
    /\ op.name = "remove" /\ ~op.raised
    /\ ~Exists(w, <<fingerprint(op.entry).s>>)
    /\ \A i \in DOMAIN log : fingerprint(log[i]) # fingerprint(op.entry)
    /\ log # <<>>

\* the description edit is of a record whose who file names another user
OthersRecord(wc, entry) ==
    /\ <<fingerprint(entry).s, "who">> \in DOMAIN wc.files
    /\ wc.files[<<fingerprint(entry).s, "who">>] # UserName

\* C16: a description edit of another user's record, the identity being
\* read, returns False without raising, changes neither the working copy
\* nor the remote, and issues no git add, commit, pull or push
C16_EditRejected ==
    [][(op'.name = "set_description" /\ OthersRecord(w, op'.entry)
                                     /\ op'.flt.at # "whoami")
          => /\ op'.result = "False" /\ ~op'.raised
             /\ w' = w /\ remote' = remote
             /\ \A i \in DOMAIN op'.calls : op'.calls[i].cmd[2] = "config"]_vars

C16_Witness ==
    /\ op.name = "set_description" /\ op.result = "False" /\ ~op.raised
    /\ op.entry["who"] = PyStr(OtherUser)
    /\ w.files[<<fingerprint(op.entry).s, "description">>] = ""

(***************************************************************************)
(* The bindings: C17 to C20                                                *)
(***************************************************************************)
\* the bindings of the map other than that of p are those of the map before
OthersUnchanged(g, h, p) ==
    \A q \in (DOMAIN g.project_repo_rels \cup DOMAIN h.project_repo_rels) \ {p} :
        resolve(h, q) = resolve(g, q)

\* C17: associate is an upsert: after an associate of the current project
\* with a URI succeeds, the project resolves to that URI and the binding of
\* every other project is as before; and no operation (associate, reload of
\* the project, delete of the local working copy, store) removes a binding
C17_Upsert ==
    [][/\ (op'.name = "set_config" /\ ~op'.raised)
            => /\ resolve(git_log', git_log.project_name) = PyStr(op'.arg)
               /\ OthersUnchanged(git_log, git_log', git_log.project_name)
       /\ \A q \in DOMAIN git_log.project_repo_rels :
             q \in DOMAIN git_log'.project_repo_rels]_vars

\* C18: the association file reloads to the map that was written: after an
\* associate that succeeds, the map read back from the file is the map before
\* with the current project (a missing name included) bound to the URI
C18_FileReloads ==
    [][(op'.name = "set_config" /\ ~op'.raised)
          => /\ load_rels(rel_file') =
                    (git_log.project_name :> op'.arg) @@ git_log.project_repo_rels
             /\ git_log'.project_repo_rels = load_rels(rel_file')]_vars

\* the final path segment of a URI, and a segment N.git without its suffix
FinalSegment(uri) == LET l == Split(uri, "/") IN l[Len(l)]
EndsWithGit(seg) == Len(seg) >= 4 /\ SubSeq(seg, Len(seg) - 3, Len(seg)) = ".git"
Stem(seg) == SubSeq(seg, 1, Len(seg) - 4)

\* C19: after an associate with a URI whose final segment is N.git, the
\* working copy path is the base directory joined with N, and when the
\* associate succeeds the directory N exists under the base directory
C19_DirectoryName ==
    (op.name = "set_config" /\ EndsWithGit(FinalSegment(op.arg)))
        => /\ git_log.repo_path = PyStr(BasePath \o Stem(FinalSegment(op.arg)))
           /\ ~op.raised => Stem(FinalSegment(op.arg)) \in DOMAIN base

HasClone(calls) == \E i \in DOMAIN calls : IsClone(calls[i])

\* C20: an associate issues a clone only when the derived working copy
\* directory does not exist; when it exists the directories under the base
\* directory and the contents of the working copy are left as they were, so
\* an associate that repeats the URI of the one before issues no clone
C20_NoReclone ==
    [][op'.name = "set_config"
          => /\ HasClone(op'.calls) => ~PathExists(base, extract_repo_name(op'.arg))
             /\ PathExists(base, extract_repo_name(op'.arg)) => (base' = base /\ w' = w)
             /\ (op.name = "set_config" /\ ~op.raised /\ op.arg = op'.arg)
                    => (~HasClone(op'.calls) /\ base' = base /\ w' = w)]_vars

\* a second associate with the URI of the working copy found the records
\* stored in it since the clone
C20_Witness ==
    /\ op.name = "set_config" /\ ~op.raised /\ ~HasClone(op.calls)
    /\ op.arg = "git@host:org/repo.git"
    /\ git_log.repo_path = PyStr(RepoPath)
    /\ "repo" \in DOMAIN base
    /\ w.head # NoFiles

(***************************************************************************)
(* C21 to C30                                                              *)
(***************************************************************************)
\* a line of the association file is well formed when it holds one comma
Commas(line) == {i \in 1..Len(line) : SubSeq(line, i, i) = ","}
WellFormedLine(line) == Cardinality(Commas(line)) = 1
NameOf(line) == LET c == CHOOSE i \in Commas(line) : TRUE IN SubSeq(line, 1, c - 1)
UriOf(line) == LET c == CHOOSE i \in Commas(line) : TRUE IN SubSeq(line, c + 1, Len(line))

\* the bindings of the well-formed lines of a file, a later line of a name
\* replacing an earlier one
BindingsOf(file) ==
    LET lines == IF file.exists THEN Split(file.data, "\n") ELSE <<>>
        good == {i \in DOMAIN lines : WellFormedLine(lines[i])}
        last(n) == CHOOSE i \in good :
                      /\ NameOf(lines[i]) = n
                      /\ \A j \in good : NameOf(lines[j]) = n => j <= i
    IN [k \in {PyStr(NameOf(lines[i])) : i \in good} |-> UriOf(lines[last(k.s)])]

\* C21: after the association file was loaded (at the start, by a reload of
\* the project, by the reload that ends an associate) the bindings are
\* exactly those of the well-formed lines of the file, and the load did not
\* fail
C21_MalformedLineSkipped ==
    (op.name \in {"init", "reload_project"} \/ (op.name = "set_config" /\ ~op.raised))
        => /\ git_log.project_repo_rels = BindingsOf(rel_file)
           /\ ~op.raised

\* a reload of a file whose malformed line precedes a well-formed one
C21_Witness ==
    /\ op.name = "reload_project"
    /\ rel_file = EditedFile
    /\ git_log.project_repo_rels = (PyStr("lab") :> "git@host:org/repo.git")

\* C22: no thread holds the lock while the notification of its mutation
\* runs, and no thread waits for a lock that it holds itself
C22_ReleaseBeforeNotify ==
    \A t \in Threads :
        \A n \in DOMAIN stack[t] :
            /\ stack[t][n].pc = "fire" => lock # t
            /\ stack[t][n].pc = "acquire" => lock # t

\* C28: a thread with no call of clear, add_entry or remove_entry in progress
\* does not hold the lock: every call that returned or failed released it
C28_LockReleased ==
    \A t \in Threads : stack[t] = <<>> => lock # t

\* tree t holds every file of tree u
Holds(t, u) == \A p \in DOMAIN u : p \in DOMAIN t /\ t[p] = u[p]

C24_NoBackgroundSync ==
    (\E i \in DOMAIN op.calls : IsPull(op.calls[i]) \/ IsPush(op.calls[i]))
        => op.name \in {"pull", "push"}

\* the files of a record stored in directory d: one per field, and for the
\* list "messages" its sentinel and the files of each element
RecordFiles(entry, d) ==
    {Append(d, k) : k \in DOMAIN entry \ {"messages"}}
        \cup (IF "messages" \in DOMAIN entry
              THEN {d \o <<"messages", ".burp-list">>}
                       \cup UNION {{d \o <<"messages", ToString(i - 1), k>> :
                                       k \in DOMAIN entry["messages"].l[i]} :
                                   i \in DOMAIN entry["messages"].l}
              ELSE {})

\* C25: when a store operation issues its commit, that commit is its only
\* one and its last command, and every file of the record, the sentinel of
\* its list and the files of the list's elements included, is on disk and
\* staged with the content it has on disk
C25_StageBeforeCommit ==
    (/\ op.name \in {"add_repeater_entry", "add_scanner_entry"}
     /\ \E i \in DOMAIN op.calls : IsCommit(op.calls[i]))
        => /\ \A i \in DOMAIN op.calls : IsCommit(op.calls[i]) <=> i = Len(op.calls)
           /\ \A p \in RecordFiles(op.entry, EntryDir) :
                  /\ p \in DOMAIN w.files
                  /\ p \in DOMAIN w.index
                  /\ w.index[p] = w.files[p]

Range(f) == {f[x] : x \in DOMAIN f}

\* how often entry e occurs in list l
Count(l, e) == Cardinality({i \in DOMAIN l : l[i] = e})

\* C26: a reload that completes leaves no entry when repo_path is None and,
\* when the working copy "repo" is the active one, one entry per directory
\* at its root other than .git, with a field per name in that directory,
\* whatever the list held; a reload right after a reload leaves the same
\* entries
C26_ReloadRebuilds ==
    [][(op'.name = "reload" /\ ~op'.raised)
          => /\ git_log.repo_path = PyNone => log' = <<>>
             /\ (git_log.repo_path = PyStr(RepoPath) /\ "repo" \in DOMAIN base)
                    => /\ Len(log') = Cardinality(RecordDirs(w))
                       /\ \A d \in RecordDirs(w) :
                             \E i \in DOMAIN log' :
                                 /\ op'.yielded[i].dir = d
                                 /\ log'[i] = op'.yielded[i].entry
                                 /\ DOMAIN log'[i] \ {"md5"} = ListDir(w, <<d>>) \ {"md5"}
             /\ (op.name = "reload" /\ ~op.raised)
                    => \A e \in Range(log) \cup Range(log') : Count(log', e) = Count(log, e)]_vars

\* a reload of the active working copy "repo", which holds one committed
\* record, left one entry
C26_Witness ==
    /\ op.name = "reload" /\ ~op.raised
    /\ git_log.repo_path = PyStr(RepoPath) /\ "repo" \in DOMAIN base
    /\ Len(log) = 1 /\ Cardinality(RecordDirs(w)) = 1
    /\ w.head # NoFiles

\* the record of entry e is committed: HEAD holds, in the directory named by
\* its fingerprint, a file for each of its fields
Committed(wc, e) ==
    /\ "md5" \in DOMAIN e
    /\ \A k \in DOMAIN e \ {"messages"} : <<fingerprint(e).s, k>> \in DOMAIN wc.head

\* C27: every entry of the in-memory list has a committed record directory
\* named by its fingerprint, and a store that failed has left no entry for
\* a record that is not committed
C27_ListedIsCommitted ==
    \A i \in DOMAIN log : Committed(w, log[i])

\* C29: after a store of a scan finding that did not fail, the entry that was
\* put in the in-memory list still has its list field "messages", with the
\* elements the caller's record was built with
C29_MessagesKept ==
    [][(op'.name = "add_scanner_entry" /\ ~op'.raised)
          => /\ Len(log') = Len(log) + 1
             /\ "messages" \in DOMAIN log'[Len(log')]
             /\ log'[Len(log')]["messages"] = op'.entry["messages"]]_vars

\* the scalar fields of a stored capture, in the order the record is built with
ScalarFields == <<"host", "port", "timestamp", "who", "description">>

\* the items read back from the files of record directory d
StoredItems(wc, d) ==
    [i \in 1..Len(ScalarFields) |->
        [k |-> ScalarFields[i], v |-> PyStr(wc.files[<<d, ScalarFields[i]>>])]]

\* d holds a file for every scalar field and for the fingerprint
WholeRecordDir(wc, d) ==
    /\ <<d, "md5">> \in DOMAIN wc.files
    /\ \A i \in 1..Len(ScalarFields) : <<d, ScalarFields[i]>> \in DOMAIN wc.files

\* C30: the name of every record directory of the working copy (one that
\* holds all the scalar fields of a record) is the fingerprint computed from
\* the scalar fields stored in it, also after a description edit
C30_DirNameIsFingerprint ==
    \A d \in RecordDirs(w) :
        WholeRecordDir(w, d) => d = hexdigest(md5_stream(StoredItems(w, d)))

(***************************************************************************)
(* Claims C31 to C33.                                                      *)
(***************************************************************************)
\* the handler that has just run has reloaded the project
ReloadedProject(o) ==
    \/ o.name = "reload_project"
    \/ o.name = "set_config" /\ ~o.raised

\* C31: after every reload of the project the active working copy path is
\* the one of the binding of the current project; when the project has no
\* binding no working copy is active and entries() yields no record
C31_PathMatchesBinding ==
    [][ReloadedProject(op') =>
          LET u == resolve(git_log', git_log'.project_name)
          IN IF u = PyNone
             THEN /\ git_log'.repo_path = PyNone
                  /\ GitLog_entries' = [raised |-> FALSE, yields |-> {<<>>}]
             ELSE git_log'.repo_path =
                      PyStr(generate_path_repo_name(extract_repo_name(u.s)))]_vars

\* C32: after an associate with URI u that did not fail, the active working
\* copy (the directory repo_path names) is a clone of u, also when another
\* URI with the same final path segment was associated before
C32_ActiveIsCloneOfUri ==
    [][(op'.name = "set_config" /\ ~op'.raised)
          => \E d \in DOMAIN base' :
                 /\ git_log'.repo_path = PyStr(generate_path_repo_name(d))
                 /\ base'[d] = op'.arg]_vars

\* C33: the entries of the in-memory list have pairwise distinct
\* fingerprints
C33_DistinctFingerprints ==
    \A i, j \in DOMAIN log :
        ("md5" \in DOMAIN log[i] /\ "md5" \in DOMAIN log[j] /\ i # j)
            => fingerprint(log[i]) # fingerprint(log[j])

=============================================================================
